---- MODULE Spec2Model ----
(***************************************************************************)
(* Model of src/app.py: the POST /analyze handler of the librosa API.      *)
(*                                                                         *)
(* Times are exact integers counted in ticks of 1/441000 s, the common     *)
(* denominator of a sample (1/22050 s), a madmom frame (1/100 s) and a     *)
(* millisecond.  Temp-file names and figure numbers are small integers,    *)
(* 0 standing for None.                                                    *)
(***************************************************************************)
EXTENDS Integers, Sequences, FiniteSets, TLC

VARIABLES madmom_available, loop, pc, frame, fs, figs, result, foreign

vars == <<madmom_available, loop, pc, frame, fs, figs, result, foreign>>

(***************************************************************************)
(* Bounds of the model.                                                    *)
(***************************************************************************)
NumReqs == 2
MaxLeaked == 1
MaxTagList == 2
MaxTrack == 2

Reqs == 1..NumReqs
NumNames == 2 * NumReqs + MaxLeaked
Names == 1..NumNames
Orphan == NumReqs + 1

(***************************************************************************)
(* Program constants.                                                      *)
(***************************************************************************)
MAX_FILE_SIZE == 20 * 1024 * 1024
DEFAULT_SR == 22050
hop_length == 512
fps == 100
TicksPerSec == 20 * DEFAULT_SR
Tolerance50ms == (5 * TicksPerSec) \div 100
TicksPerMs == TicksPerSec \div 1000

(***************************************************************************)
(* Inputs the environment can supply.                                      *)
(***************************************************************************)
Sizes == {1, MAX_FILE_SIZE, MAX_FILE_SIZE + 1}
SampleCounts == {DEFAULT_SR, 2 * DEFAULT_SR}
Tempos == {120}
BeatFrameSeqs == {<<>>, <<43>>, <<86>>, <<43, 86>>}
OnsetFrameSeqs == {<<10>>}
RmsSeqs == {<<1>>}
TrackFrames == {100, 150}
BarPositions == {1, 2}
TagNames == {"TIT2", "TPE1", "TCON"}

RECURSIVE SeqsUpTo(_, _)
SeqsUpTo(S, n) ==
    IF n = 0 THEN {<<>>}
    ELSE LET shorter == SeqsUpTo(S, n - 1)
         IN  shorter \cup {Append(s, x) : s \in {q \in shorter : Len(q) = n - 1}, x \in S}

\* tag values: a frame object holding one text, or a list of 0..MaxTagList texts
TagValues ==
    {[islist |-> FALSE, items |-> <<1>>]}
    \cup {[islist |-> TRUE, items |-> [i \in 1..k |-> i]] : k \in 0..MaxTagList}

TagDicts == UNION {[D -> TagValues] : D \in SUBSET TagNames}

\* what MutagenFile(file_stream) does: raise, return None, return a file with tags
ParseOutcomes ==
    {[kind |-> "raise", tags |-> <<>>], [kind |-> "None", tags |-> <<>>]}
    \cup {[kind |-> "file", tags |-> t] : t \in TagDicts}

\* tracker outputs: (time, bar position) pairs with increasing times
Tracks ==
    {s \in SeqsUpTo(TrackFrames \X BarPositions, MaxTrack) :
        \A i \in 1..Len(s) : \A j \in 1..Len(s) : i < j => s[i][1] < s[j][1]}

(***************************************************************************)
(* Python values.                                                          *)
(***************************************************************************)
NoneVal == <<"None">>
Str(x) == <<"str", x>>
Ndarray(s) == [type |-> "ndarray", v |-> s]
List(s) == [type |-> "list", v |-> s]

\* convert_ndarray on the values the handler passes it (arrays and lists of floats)
convert_ndarray(obj) ==
    IF obj.type = "ndarray" THEN List(obj.v) ELSE obj

AllNull == [song_label |-> NoneVal, artist |-> NoneVal, genre |-> NoneVal]

Returned(v) == [raised |-> FALSE, value |-> v]
Raised == [raised |-> TRUE, value |-> AllNull]

\* get_tag_value: val[0] of an empty list raises IndexError
get_tag_value(tags, tag_name) ==
    IF tag_name \in DOMAIN tags
    THEN LET val == tags[tag_name]
         IN  IF val.islist
             THEN IF Len(val.items) = 0 THEN Raised
                  ELSE Returned(Str(val.items[1]))
             ELSE Returned(Str(val.items[1]))
    ELSE Returned(NoneVal)

\* the try block of get_metadata, given what MutagenFile(file_stream) did
get_metadata_try(audio) ==
    IF audio.kind = "raise" THEN Raised
    ELSE IF audio.kind = "None" \/ DOMAIN audio.tags = {} THEN Returned(AllNull)
    ELSE LET t == get_tag_value(audio.tags, "TIT2")
             a == get_tag_value(audio.tags, "TPE1")
             g == get_tag_value(audio.tags, "TCON")
         IN  IF t.raised \/ a.raised \/ g.raised THEN Raised
             ELSE Returned([song_label |-> t.value, artist |-> a.value, genre |-> g.value])

get_metadata_no_except(audio) == get_metadata_try(audio)

\* get_metadata: `except Exception` turns every failure into the all-null dict
get_metadata(audio) ==
    IF get_metadata_try(audio).raised THEN Returned(AllNull) ELSE get_metadata_try(audio)

(***************************************************************************)
(* Time arithmetic.                                                        *)
(***************************************************************************)
\* len(y) / sr
get_duration(n) == n * (TicksPerSec \div DEFAULT_SR)

\* frame * hop_length / sr
frames_to_time(f) == f * hop_length * (TicksPerSec \div DEFAULT_SR)

\* the tracker's times: frame / fps
madmom_time(k) == k * (TicksPerSec \div fps)

\* round(float(t), 3), in milliseconds; no beat time lies on a tie
round3(t) == (2 * t + TicksPerMs) \div (2 * TicksPerMs)

Abs(x) == IF x < 0 THEN 0 - x ELSE x

(***************************************************************************)
(* Downbeat filtering, event synthesis, response assembly.                 *)
(***************************************************************************)
\* [float(t) for t, b in beats_madmom if b == 1]
downbeats_of(beats_madmom) ==
    LET first_of_bar(e) == e[2] = 1
        kept == SelectSeq(beats_madmom, first_of_bar)
    IN  [i \in 1..Len(kept) |-> madmom_time(kept[i][1])]

within_duration_strict(downbeats, duration) ==
    LET inside(db) == db < duration
    IN  SelectSeq(downbeats, inside)

\* [db for db in downbeats if db <= duration]
within_duration(downbeats, duration) ==
    LET inside(db) == db <= duration
    IN  SelectSeq(downbeats, inside)

\* the unused accent/fill classification of a beat
beat_action(t, downbeats) ==
    IF \E i \in 1..Len(downbeats) : Abs(t - downbeats[i]) < Tolerance50ms
    THEN "Go+" ELSE "fillIn"

enumerate_start == 1

build_events_labelled(beat_times, downbeats) ==
    [i \in 1..Len(beat_times.v) |->
        [timeshow_id |-> 160,
         event_id |-> <<"M", enumerate_start + i - 1>>,
         event_label |-> beat_action(beat_times.v[i], downbeats),
         time_stamp |-> round3(beat_times.v[i]),
         event_color |-> "#F3F6EC",
         Value |-> 1]]

\* the events loop over enumerate(beat_times, start=1)
build_events(beat_times, downbeats) ==
    [i \in 1..Len(beat_times.v) |->
        [timeshow_id |-> 160,
         event_id |-> <<"M", enumerate_start + i - 1>>,
         event_label |-> "measure",
         time_stamp |-> round3(beat_times.v[i]),
         event_color |-> "#F3F6EC",
         Value |-> 1]]

response_data_swapped(f) ==
    [tempo |-> f.tempo,
     beat_times |-> convert_ndarray(f.beat_times),
     onset_times |-> convert_ndarray(f.onset_times),
     rms |-> convert_ndarray(f.rms),
     duration |-> f.duration,
     downbeats |-> f.downbeats,
     image_base64 |-> f.img_base64,
     speed |-> f.duration,
     length |-> f.tempo,
     events |-> f.events,
     song_label |-> f.metadata.song_label,
     artist |-> f.metadata.artist,
     genre |-> f.metadata.genre]

\* response_data, with **metadata merged in
response_data(f) ==
    [tempo |-> f.tempo,
     beat_times |-> convert_ndarray(f.beat_times),
     onset_times |-> convert_ndarray(f.onset_times),
     rms |-> convert_ndarray(f.rms),
     duration |-> f.duration,
     downbeats |-> f.downbeats,
     image_base64 |-> f.img_base64,
     speed |-> f.tempo,
     length |-> f.duration,
     events |-> f.events,
     song_label |-> f.metadata.song_label,
     artist |-> f.metadata.artist,
     genre |-> f.metadata.genre]

(***************************************************************************)
(* State of the process.                                                   *)
(*   madmom_available  the import flag set once at startup                 *)
(*   loop              request running on the event-loop thread, 0 if free *)
(*   pc[r]             position of request r in analyze                    *)
(*   frame[r]          the locals of request r's call of analyze           *)
(*   fs                temp directory: name -> owning request, 0 if absent *)
(*   figs              pyplot's stack of open figures, current one last    *)
(*   result[r]         what the caller of request r observes               *)
(*   foreign           some request touched a file that is not its own     *)
(***************************************************************************)
NoAudio == [kind |-> "unset", tags |-> <<>>]
NoFigure == [num |-> 0, owner |-> 0]
NoOutcome == [status |-> 0, stage |-> "none"]

EmptyFrame ==
    [content |-> 0, audio |-> NoAudio, metadata |-> AllNull,
     tmp_path |-> 0, tmp_path_for_load |-> 0, bound |-> {},
     y |-> 0, duration |-> 0, tempo |-> 0,
     beat_times |-> Ndarray(<<>>), onset_times |-> Ndarray(<<>>), rms |-> Ndarray(<<>>),
     beats_madmom |-> <<>>, downbeats |-> <<>>, madmom |-> "not_run",
     fig |-> 0, used |-> NoFigure, img_base64 |-> "null",
     events |-> <<>>, response |-> <<>>, created |-> {}, pending |-> NoOutcome]

NoResult ==
    [status |-> 0, stage |-> "none", body |-> <<>>, pending |-> NoOutcome,
     cleanup_exc |-> "none", created |-> {}, ran_finally |-> FALSE]

Init ==
    /\ madmom_available \in BOOLEAN
    /\ loop = 0
    /\ pc = [r \in Reqs |-> "idle"]
    /\ frame = [r \in Reqs |-> EmptyFrame]
    /\ fs = [n \in Names |-> 0]
    /\ figs = <<>>
    /\ result = [r \in Reqs |-> NoResult]
    /\ foreign = FALSE

(***************************************************************************)
(* Scheduling: analyze is a coroutine on a single event loop; it gives up  *)
(* the thread only where it awaits.                                        *)
(***************************************************************************)
SuspendsInPlot(p) == p \in {"read", "plot_save"}

\* the positions at which the coroutine is suspended: `await audio.read()`
Suspends(p) == p = "read"

Runnable(r) == loop = r \/ (loop = 0 /\ (pc[r] = "idle" \/ Suspends(pc[r])))

LoopAfter(r, p) == IF p = "idle" \/ Suspends(p) THEN 0 ELSE r

Goto(r, p) ==
    /\ pc' = [pc EXCEPT ![r] = p]
    /\ loop' = LoopAfter(r, p)

\* an exception leaves the try block for the finally clause
Propagate(r, f, stage) ==
    /\ frame' = [frame EXCEPT ![r] = [f EXCEPT !.pending = [status |-> 500, stage |-> stage]]]
    /\ Goto(r, "finally")

(***************************************************************************)
(* Temp files and figures.                                                 *)
(***************************************************************************)
Orphans == {n \in Names : fs[n] = Orphan}

\* NamedTemporaryFile creates a file under a name no existing file has; names
\* are interchangeable, so the least unused one stands for whichever it draws
FreshNames(files) ==
    {n \in Names : files[n] = 0 /\ \A m \in Names : m < n => files[m] # 0}

NotOwn(r, n) == fs[n] \notin {0, r}

NextFigNum == IF figs = <<>> THEN 1
              ELSE 1 + (CHOOSE m \in 1..Len(figs) + NumReqs :
                            /\ \E i \in 1..Len(figs) : figs[i].num = m
                            /\ \A i \in 1..Len(figs) : figs[i].num <= m)

\* plt.close(fig)
close_fig(stack, num) ==
    LET other(g) == g.num # num
    IN  SelectSeq(stack, other)

\* plt.gcf(): the figure tight_layout and savefig act on
gcf(stack) == stack[Len(stack)]

(***************************************************************************)
(* The handler, one action per stage.                                      *)
(***************************************************************************)
\* a request arrives; analyze starts and awaits audio.read()
Arrive(r) ==
    /\ pc[r] = "idle"
    /\ Runnable(r)
    /\ Goto(r, "read")
    /\ UNCHANGED <<madmom_available, frame, fs, figs, result, foreign>>

\* audio.read() completes with the upload's bytes
ReadDone(r) ==
    /\ pc[r] = "read"
    /\ Runnable(r)
    /\ \E size \in Sizes :
          frame' = [frame EXCEPT ![r].content = size]
    /\ Goto(r, "check")
    /\ UNCHANGED <<madmom_available, fs, figs, result, foreign>>

TooLargeInclusive(size) == size >= MAX_FILE_SIZE

\* len(content) > MAX_FILE_SIZE
TooLarge(size) == size > MAX_FILE_SIZE

\* the size check; HTTPException(413) is raised outside the try block
SizeCheck(r) ==
    /\ pc[r] = "check"
    /\ Runnable(r)
    /\ IF TooLarge(frame[r].content)
       THEN /\ result' = [result EXCEPT ![r] =
                             [NoResult EXCEPT !.status = 413, !.stage = "size"]]
            /\ frame' = [frame EXCEPT ![r] = EmptyFrame]
            /\ Goto(r, "done")
       ELSE /\ frame' = [frame EXCEPT ![r].tmp_path = 0, ![r].img_base64 = "null"]
            /\ Goto(r, "meta_parse")
            /\ UNCHANGED result
    /\ UNCHANGED <<madmom_available, fs, figs, foreign>>

\* get_metadata, up to the return of MutagenFile(file_stream)
MetaParse(r) ==
    /\ pc[r] = "meta_parse"
    /\ Runnable(r)
    /\ \E audio \in ParseOutcomes :
          frame' = [frame EXCEPT ![r].audio = audio]
    /\ Goto(r, "meta_return")
    /\ UNCHANGED <<madmom_available, fs, figs, result, foreign>>

\* get_metadata returns; its locals are gone
MetaReturn(r) ==
    /\ pc[r] = "meta_return"
    /\ Runnable(r)
    /\ LET m == get_metadata(frame[r].audio)
           f == [frame[r] EXCEPT !.audio = NoAudio]
       IN  IF m.raised
           THEN Propagate(r, f, "metadata")
           ELSE /\ frame' = [frame EXCEPT ![r] = [f EXCEPT !.metadata = m.value]]
                /\ Goto(r, "mp3")
    /\ UNCHANGED <<madmom_available, fs, figs, result, foreign>>

\* the upload is written to the '.mp3' temp file
WriteMp3(r) ==
    /\ pc[r] = "mp3"
    /\ Runnable(r)
    /\ \/ \* NamedTemporaryFile raises: no file
          /\ Propagate(r, frame[r], "decode")
          /\ UNCHANGED <<fs, foreign>>
       \/ \E n \in FreshNames(fs) :
             /\ fs' = [fs EXCEPT ![n] = r]
             /\ foreign' = (foreign \/ NotOwn(r, n))
             /\ LET f == [frame[r] EXCEPT !.created = @ \cup {n}]
                IN  \/ \* write or flush raises: tmp_path_for_load is never bound
                       /\ Cardinality(Orphans) < MaxLeaked
                       /\ Propagate(r, f, "decode")
                    \/ /\ frame' = [frame EXCEPT ![r] =
                                       [f EXCEPT !.tmp_path_for_load = n,
                                                 !.bound = @ \cup {"tmp_path_for_load"}]]
                       /\ Goto(r, "load")
    /\ UNCHANGED <<madmom_available, figs, result>>

\* librosa.load and get_duration
Load(r) ==
    /\ pc[r] = "load"
    /\ Runnable(r)
    /\ foreign' = (foreign \/ NotOwn(r, frame[r].tmp_path_for_load))
    /\ \/ Propagate(r, frame[r], "decode")
       \/ \E n \in SampleCounts :
             /\ frame' = [frame EXCEPT ![r].y = n,
                                       ![r].duration = get_duration(n),
                                       ![r].bound = @ \cup {"y"}]
             /\ Goto(r, "rhythm")
    /\ UNCHANGED <<madmom_available, fs, figs, result>>

\* the locals of the finally clause's del that rhythm analysis binds, in order
RhythmLocals == <<"onset_env", "beat_times", "onset_times", "plp">>

BoundAfter(k) == {RhythmLocals[i] : i \in 1..k}

\* onset strength, beat tracking, onset detection, RMS, PLP
Rhythm(r) ==
    /\ pc[r] = "rhythm"
    /\ Runnable(r)
    /\ \/ \E k \in 0..Len(RhythmLocals) :
             Propagate(r, [frame[r] EXCEPT !.bound = @ \cup BoundAfter(k)], "rhythm")
       \/ \E tempo \in Tempos, beats \in BeatFrameSeqs,
             onsets \in OnsetFrameSeqs, rms \in RmsSeqs :
             /\ frame' = [frame EXCEPT ![r] =
                   [@ EXCEPT !.tempo = tempo,
                             !.beat_times = Ndarray([i \in 1..Len(beats) |-> frames_to_time(beats[i])]),
                             !.onset_times = Ndarray([i \in 1..Len(onsets) |-> frames_to_time(onsets[i])]),
                             !.rms = Ndarray(rms),
                             !.bound = @ \cup BoundAfter(Len(RhythmLocals))]]
             /\ Goto(r, "wav")
    /\ UNCHANGED <<madmom_available, fs, figs, result, foreign>>

\* the waveform is written as stereo PCM_16 to the '.wav' temp file
WriteWav(r) ==
    /\ pc[r] = "wav"
    /\ Runnable(r)
    /\ \/ \* NamedTemporaryFile raises: no file, tmp_path stays None
          /\ Propagate(r, frame[r], "wav_write")
          /\ UNCHANGED <<fs, foreign>>
       \/ \E n \in FreshNames(fs) :
             /\ fs' = [fs EXCEPT ![n] = r]
             /\ foreign' = (foreign \/ NotOwn(r, n))
             /\ LET f == [frame[r] EXCEPT !.created = @ \cup {n}, !.tmp_path = n]
                    g == [f EXCEPT !.bound = @ \cup {"y_stereo"}]
                IN  \/ Propagate(r, f, "wav_write")   \* np.vstack raises
                    \/ Propagate(r, g, "wav_write")   \* sf.write raises
                    \/ /\ frame' = [frame EXCEPT ![r] = g]
                       /\ Goto(r, "madmom")
    /\ UNCHANGED <<madmom_available, figs, result>>

IsInstance(exc, cls) ==
    \/ cls = "Exception"
    \/ exc = cls
    \/ exc = "UnboundLocalError" /\ cls = "NameError"

\* what a try/except lets through
Uncaught(exc, cls) == IF exc # "none" /\ IsInstance(exc, cls) THEN "none" ELSE exc

madmom_except_narrow(exc) == Uncaught(exc, "NameError")

\* the `except Exception` around the downbeat tracker
madmom_except(exc) == Uncaught(exc, "Exception")

\* the guarded downbeat tracker: RNNDownBeatProcessor, then the DBN tracker
Madmom(r) ==
    /\ pc[r] = "madmom"
    /\ Runnable(r)
    /\ IF madmom_available
       THEN /\ foreign' = (foreign \/ NotOwn(r, frame[r].tmp_path))
            /\ \/ \* the activation model or the tracker raises
                  IF madmom_except("RuntimeError") = "none"
                  THEN /\ frame' = [frame EXCEPT ![r].madmom = "raised"]
                       /\ Goto(r, "plot")
                  ELSE Propagate(r, [frame[r] EXCEPT !.madmom = "raised"], "madmom")
               \/ \E track \in Tracks :
                     /\ frame' = [frame EXCEPT ![r] =
                           [@ EXCEPT !.madmom = "ok",
                                     !.beats_madmom = track,
                                     !.downbeats = within_duration(downbeats_of(track),
                                                                   frame[r].duration)]]
                     /\ Goto(r, "plot")
       ELSE /\ frame' = [frame EXCEPT ![r].madmom = "skipped"]
            /\ Goto(r, "plot")
            /\ UNCHANGED foreign
    /\ UNCHANGED <<madmom_available, fs, figs, result>>

\* plt.subplots and the drawing of the three panels
PlotCreate(r) ==
    /\ pc[r] = "plot"
    /\ Runnable(r)
    /\ \/ \* plt.subplots raises: fig is still None
          /\ Propagate(r, frame[r], "plot")
          /\ UNCHANGED figs
       \/ /\ figs' = Append(figs, [num |-> NextFigNum, owner |-> r])
          /\ frame' = [frame EXCEPT ![r].fig = NextFigNum]
          /\ Goto(r, "plot_save")
    /\ UNCHANGED <<madmom_available, fs, result, foreign>>

\* tight_layout, savefig and base64 on the current figure, then the inner finally
PlotSave(r) ==
    /\ pc[r] = "plot_save"
    /\ Runnable(r)
    /\ figs' = close_fig(figs, frame[r].fig)
    /\ \/ \* a drawing call, hpss or savefig raises
          Propagate(r, frame[r], "plot")
       \/ /\ frame' = [frame EXCEPT ![r].used = gcf(figs), ![r].img_base64 = "png"]
          /\ Goto(r, "events")
    /\ UNCHANGED <<madmom_available, fs, result, foreign>>

\* the events loop
Events(r) ==
    /\ pc[r] = "events"
    /\ Runnable(r)
    /\ frame' = [frame EXCEPT ![r].events =
                    build_events(frame[r].beat_times, frame[r].downbeats)]
    /\ Goto(r, "return")
    /\ UNCHANGED <<madmom_available, fs, figs, result, foreign>>

\* response_data is built and returned
Return(r) ==
    /\ pc[r] = "return"
    /\ Runnable(r)
    /\ frame' = [frame EXCEPT ![r].response = response_data(frame[r]),
                              ![r].pending = [status |-> 200, stage |-> "none"]]
    /\ Goto(r, "finally")
    /\ UNCHANGED <<madmom_available, fs, figs, result, foreign>>

(***************************************************************************)
(* The finally clause.                                                     *)
(***************************************************************************)
LocalsGuardMissing(f) == TRUE

\* 'tmp_path_for_load' in locals()
LocalsGuard(f) == "tmp_path_for_load" \in f.bound

DelList == {"y", "y_stereo", "onset_env", "plp", "beat_times", "onset_times"}

\* the exception del raises when one of its names is unbound
del_locals(f) == IF DelList \subseteq f.bound THEN "none" ELSE "UnboundLocalError"

\* the finally clause: the files after it and the exception it raises, if any;
\* rm1, rm2 tell whether os.remove of the wav and of the mp3 file raises OSError
cleanup(f, files, rm1, rm2) ==
    LET a_try == f.tmp_path # 0 /\ files[f.tmp_path] # 0
        files1 == IF a_try /\ ~rm1 THEN [files EXCEPT ![f.tmp_path] = 0] ELSE files
        excA == Uncaught(IF a_try /\ rm1 THEN "OSError" ELSE "none", "Exception")
        guard == LocalsGuard(f)
        unbound == guard /\ "tmp_path_for_load" \notin f.bound
        b_try == guard /\ ~unbound /\ files1[f.tmp_path_for_load] # 0
        files2 == IF b_try /\ ~rm2 THEN [files1 EXCEPT ![f.tmp_path_for_load] = 0] ELSE files1
        excB == IF unbound THEN "UnboundLocalError"
                ELSE Uncaught(IF b_try /\ rm2 THEN "OSError" ELSE "none", "Exception")
        excC == Uncaught(del_locals(f), "NameError")
    IN  IF excA # "none" THEN [files |-> files1, exc |-> excA, failed |-> 1]
        ELSE IF excB # "none" THEN [files |-> files1, exc |-> excB, failed |-> 0]
        ELSE [files |-> files2, exc |-> excC,
              failed |-> (IF a_try /\ rm1 THEN 1 ELSE 0) + (IF b_try /\ rm2 THEN 1 ELSE 0)]

Finally(r) ==
    /\ pc[r] = "finally"
    /\ Runnable(r)
    /\ \E rm1 \in BOOLEAN, rm2 \in BOOLEAN :
          LET f == frame[r]
              c == cleanup(f, fs, rm1, rm2)
              seen == IF c.exc # "none" THEN [status |-> 500, stage |-> c.exc] ELSE f.pending
          IN  /\ c.failed + Cardinality(Orphans) <= MaxLeaked
              /\ fs' = c.files
              /\ foreign' = (foreign \/ \E n \in Names : fs[n] # c.files[n] /\ NotOwn(r, n))
              /\ result' = [result EXCEPT ![r] =
                    [status |-> seen.status, stage |-> seen.stage,
                     body |-> IF seen.status = 200 THEN f.response ELSE <<>>,
                     pending |-> f.pending, cleanup_exc |-> c.exc,
                     created |-> f.created, ran_finally |-> TRUE]]
    /\ frame' = [frame EXCEPT ![r] = EmptyFrame]
    /\ Goto(r, "done")
    /\ UNCHANGED <<madmom_available, figs>>

\* the framework sends the response; the request is over
Respond(r) ==
    /\ pc[r] = "done"
    /\ Runnable(r)
    /\ result' = [result EXCEPT ![r] = NoResult]
    /\ fs' = [n \in Names |-> IF fs[n] = r THEN Orphan ELSE fs[n]]
    /\ Goto(r, "idle")
    /\ UNCHANGED <<madmom_available, frame, figs, foreign>>

Next ==
    \E r \in Reqs :
        \/ Arrive(r)
        \/ ReadDone(r)
        \/ SizeCheck(r)
        \/ MetaParse(r)
        \/ MetaReturn(r)
        \/ WriteMp3(r)
        \/ Load(r)
        \/ Rhythm(r)
        \/ WriteWav(r)
        \/ Madmom(r)
        \/ PlotCreate(r)
        \/ PlotSave(r)
        \/ Events(r)
        \/ Return(r)
        \/ Finally(r)
        \/ Respond(r)

Spec == Init /\ [][Next]_vars

(***************************************************************************)
(* Properties.                                                             *)
(***************************************************************************)
Succeeded(r) == pc[r] = "done" /\ result[r].status = 200
Returning(r) == pc[r] = "finally" /\ frame[r].pending.status = 200
ResponseKeys == {"tempo", "beat_times", "onset_times", "rms", "duration", "downbeats",
                 "image_base64", "speed", "length", "events",
                 "song_label", "artist", "genre"}
AfterMadmom == {"plot", "plot_save", "events", "return", "finally"}

\* C1: once the handler has exited, none of the temp files the request created
\* exists, whichever way the handler exited.
C1_TempFilesRemoved ==
    \A r \in Reqs : pc[r] = "done" => \A n \in result[r].created : fs[n] = 0

\* C2: an upload of more than 20 MiB is answered 413 by the size check with no
\* later step run, no temp file created and the finally clause not entered; an
\* upload of at most 20 MiB passes the check, and only such uploads are ever
\* past it.
C2_SizeLimit ==
    /\ [](\A r \in Reqs :
            /\ pc[r] \notin {"idle", "read", "check", "done"}
                  => frame[r].content <= 20 * 1024 * 1024
            /\ pc[r] = "done" /\ result[r].status = 413
                  => result[r].created = {} /\ ~result[r].ran_finally)
    /\ [][\A r \in Reqs :
            pc[r] = "check" /\ pc'[r] # "check" =>
               IF frame[r].content > 20 * 1024 * 1024
               THEN /\ pc'[r] = "done"
                    /\ result'[r].status = 413
                    /\ fs' = fs
                    /\ frame'[r] = EmptyFrame
               ELSE /\ pc'[r] = "meta_parse"
                    /\ result'[r].status = 0]_vars

C2_Witness ==
    \E r \in Reqs : pc[r] = "done" /\ result[r].status = 413 /\ \A n \in Names : fs[n] = 0

\* C3: when the downbeat library is unavailable, or the activation model or the
\* tracker raises, the request goes on to the visualization with an empty
\* downbeats list; the tracker is never what fails the request, and the response
\* it returns has downbeats [] and every other field populated.
C3_DownbeatsDegrade ==
    \A r \in Reqs :
        /\ pc[r] \in AfterMadmom \ {"finally"} =>
              (frame[r].madmom = "skipped" <=> ~madmom_available)
        /\ frame[r].madmom \in {"raised", "skipped"} =>
              /\ pc[r] \in AfterMadmom
              /\ frame[r].downbeats = <<>>
              /\ pc[r] = "finally" => frame[r].pending.stage \in {"none", "plot"}
              /\ Returning(r) =>
                    LET resp == frame[r].response
                    IN  /\ DOMAIN resp = ResponseKeys
                        /\ resp.downbeats = <<>>
                        /\ resp.image_base64 = "png"
                        /\ resp.tempo \in Tempos
                        /\ resp.duration > 0
                        /\ resp.beat_times.type = "list"
                        /\ resp.onset_times.type = "list"
                        /\ resp.rms.type = "list"
                        /\ Len(resp.events) = Len(resp.beat_times.v)

C3_Witness ==
    \E r \in Reqs : Returning(r) /\ frame[r].madmom = "raised"
                    /\ frame[r].response.beat_times.v # <<>>

\* C4: no failure inside the downbeat stage, the writing of the stereo WAV
\* included, ever fails the request.
C4_DownbeatStageNeverFails ==
    \A r \in Reqs : pc[r] = "done" => result[r].stage \notin {"wav_write", "madmom"}

\* C5: get_metadata always returns to the handler; it returns the all-null
\* structure when the parser raises, returns None or finds no tags; a list-valued
\* tag gives the string of its first value and a missing tag gives None; every
\* response carries the three keys.
C5_Metadata ==
    /\ [](\A r \in Reqs : Returning(r) =>
            {"song_label", "artist", "genre"} \subseteq DOMAIN frame[r].response)
    /\ [][\A r \in Reqs :
            pc[r] = "meta_return" /\ pc'[r] # "meta_return" =>
               LET a == frame[r].audio
                   m == frame'[r].metadata
                   key == [TIT2 |-> "song_label", TPE1 |-> "artist", TCON |-> "genre"]
                   empty_list == \E t \in DOMAIN a.tags :
                                    a.tags[t].islist /\ a.tags[t].items = <<>>
               IN  /\ pc'[r] = "mp3"
                   /\ DOMAIN m = {"song_label", "artist", "genre"}
                   /\ (a.kind \in {"raise", "None"} \/ DOMAIN a.tags = {} \/ empty_list)
                         => m = [song_label |-> <<"None">>, artist |-> <<"None">>,
                                 genre |-> <<"None">>]
                   /\ (a.kind = "file" /\ ~empty_list) =>
                         \A t \in TagNames :
                            IF t \in DOMAIN a.tags
                            THEN m[key[t]] = <<"str", a.tags[t].items[1]>>
                            ELSE m[key[t]] = <<"None">>]_vars

C5_Witness ==
    \E r \in Reqs : /\ Returning(r)
                    /\ frame[r].response.song_label = <<"None">>
                    /\ frame[r].response.artist = <<"str", 1>>

\* C6: a successful response has one event per beat; the i-th has event_id
\* "M"+i, label "measure", timeshow_id 160, color "#F3F6EC", Value 1 and the
\* i-th beat time rounded to the nearest millisecond.
C6_Events ==
    \A r \in Reqs : Succeeded(r) =>
        LET resp == result[r].body
            beats == resp.beat_times.v
        IN  /\ Len(resp.events) = Len(beats)
            /\ \A i \in 1..Len(beats) :
                  LET e == resp.events[i]
                  IN  /\ e.event_id = <<"M", i>>
                      /\ e.event_label = "measure"
                      /\ e.timeshow_id = 160
                      /\ e.event_color = "#F3F6EC"
                      /\ e.Value = 1
                      /\ 2 * Abs(e.time_stamp * 441 - beats[i]) <= 441

C6_Witness ==
    \E r \in Reqs :
        /\ Succeeded(r)
        /\ Len(result[r].body.events) = 2
        /\ beat_action(result[r].body.beat_times.v[1], result[r].body.downbeats) = "Go+"
        /\ beat_action(result[r].body.beat_times.v[2], result[r].body.downbeats) = "fillIn"

\* C7: in a successful response speed = tempo, length = duration, duration >= 0.
C7_Duplicates ==
    \A r \in Reqs : Succeeded(r) =>
        /\ result[r].body.speed = result[r].body.tempo
        /\ result[r].body.length = result[r].body.duration
        /\ result[r].body.duration >= 0

C7_Witness ==
    \E r \in Reqs : Succeeded(r) /\ result[r].body.tempo # result[r].body.duration

\* C8: the downbeats of a response are exactly the tracker outputs with bar
\* position 1 and time <= duration, in tracker order.
C8_Downbeats ==
    \A r \in Reqs : Returning(r) =>
        LET track == frame[r].beats_madmom
            resp == frame[r].response
            idx == {i \in 1..Len(track) :
                       track[i][2] = 1 /\ track[i][1] * 4410 <= resp.duration}
            nth(k) == CHOOSE i \in idx : Cardinality({j \in idx : j <= i}) = k
        IN  /\ \A k \in 1..Len(resp.downbeats) : resp.downbeats[k] <= resp.duration
            /\ Len(resp.downbeats) = Cardinality(idx)
            /\ \A k \in 1..Len(resp.downbeats) : resp.downbeats[k] = track[nth(k)][1] * 4410

C8_Witness ==
    \E r \in Reqs :
        /\ Returning(r)
        /\ frame[r].beats_madmom = <<<<100, 1>>, <<150, 1>>>>
        /\ frame[r].response.downbeats = <<frame[r].response.duration>>

\* C9: only one request at a time is past its await; no request touches a temp
\* file of another one; the open figures belong to the request on the thread and
\* the figure a request lays out and saves is the one it created.
C9_Isolation ==
    /\ ~foreign
    /\ \A i \in 1..Len(figs) : figs[i].owner = loop
    /\ \A r \in Reqs :
          /\ pc[r] \notin {"idle", "read"} => loop = r
          /\ frame[r].used.num # 0 =>
                frame[r].used.owner = r /\ frame[r].used.num = frame[r].fig
          /\ \A n \in frame[r].created : fs[n] \in {0, r}

C9_Witness ==
    \E r \in Reqs, q \in Reqs :
        /\ r # q
        /\ pc[q] = "read"
        /\ pc[r] = "events"
        /\ frame[r].used.owner = r
        /\ Cardinality(frame[r].created) = 2
        /\ Orphans # {}

\* C10: the finally clause never raises: the caller observes the outcome the
\* pipeline produced, also when a local is unbound or a deletion fails.
C10_CleanupSilent ==
    \A r \in Reqs : pc[r] = "done" /\ result[r].ran_finally =>
        /\ result[r].cleanup_exc = "none"
        /\ result[r].status = result[r].pending.status
        /\ result[r].stage = result[r].pending.stage
        /\ result[r].status \in {200, 500}

C10_Witness ==
    \E r \in Reqs :
        /\ pc[r] = "done"
        /\ result[r].ran_finally
        /\ result[r].stage = "wav_write"
        /\ \E n \in result[r].created : fs[n] # 0

====
